---- MODULE Spec2Model ----
(***************************************************************************)
(* Model of wheat_n_estimation: the estimation engine                      *)
(* NitrogenEstimator.estimate_n_content_from_indices, predict and          *)
(* get_estimation_quality (src/wheat_n_estimation/n_estimator.py), the     *)
(* loader DataLoader.load_time_series and calculate_vegetation_indices     *)
(* (data_loader.py) and NitrogenEstimationPipeline (pipeline.py).          *)
(*                                                                         *)
(* Floating-point values are modelled as extended rationals n/d in lowest  *)
(* terms: d > 0 is a finite value, 1/0 is +inf, -1/0 is -inf and 0/0 is    *)
(* NaN.  Arithmetic is exact (rounding of the last bit is not modelled);   *)
(* the IEEE special values and their propagation are.  Image files are     *)
(* modelled by their name, date tag, dated stem and band means; plots and  *)
(* the report by the name of the file they write.                          *)
(***************************************************************************)
EXTENDS Integers, Sequences, FiniteSets, TLC

VARIABLES
    pc,                   \* position of the running estimator call
    indices,              \* argument of estimate_n_content_from_indices
    estimation,           \* outcome of estimate_n_content_from_indices
    time_series_indices,  \* argument of predict
    ts_pos,               \* index of the entry the loop of predict is at
    predictions,          \* the list predict builds and returns
    stdout,               \* the warnings predict has printed
    exception,            \* the exception that ended predict, "" when none
    uncertainty,          \* argument of get_estimation_quality
    quality,              \* label returned by get_estimation_quality
    scaler,               \* NitrogenEstimator.scaler
    data_dir,             \* the image directory DataLoader reads
    output_path,          \* what the pipeline's output path is on disk
    output_files,         \* names of the files written to the output directory
    csv,                  \* the rows of nitrogen_analysis.csv
    time_series,          \* the records returned by load_time_series
    results,              \* the value returned by run_pipeline
    run,                  \* position of the pipeline
    error                 \* the exception that ended the pipeline

estimator_vars == <<pc, indices, estimation, time_series_indices, ts_pos,
                    predictions, stdout, exception, uncertainty, quality, scaler>>

pipeline_vars == <<data_dir, output_path, output_files, csv, time_series,
                   results, run, error>>

vars == <<estimator_vars, pipeline_vars>>

-----------------------------------------------------------------------------
(* Floating-point values *)

Abs(x) == IF x < 0 THEN -x ELSE x

Sign(x) == IF x < 0 THEN -1 ELSE IF x > 0 THEN 1 ELSE 0

RECURSIVE GCD(_, _)
GCD(a, b) == IF b = 0 THEN a ELSE GCD(b, a % b)

\* The float n/d (d >= 0), in lowest terms; root = TRUE marks the value
\* sqrt(n/d) of a positive n/d that has no rational root.
F(n, d) ==
    IF d = 0 THEN [n |-> Sign(n), d |-> 0, root |-> FALSE]
    ELSE LET g == GCD(Abs(n), d)
         IN  [n |-> n \div g, d |-> d \div g, root |-> FALSE]

NaN == F(0, 0)
PosInf == F(1, 0)
NegInf == F(-1, 0)

IsNaN(x) == x.n = 0 /\ x.d = 0
IsInf(x) == x.n # 0 /\ x.d = 0
IsFinite(x) == x.d # 0

\* a + b
FAdd(a, b) ==
    IF IsNaN(a) \/ IsNaN(b) THEN NaN
    ELSE IF IsInf(a) /\ IsInf(b) THEN (IF a.n = b.n THEN a ELSE NaN)
    ELSE IF IsInf(a) THEN a
    ELSE IF IsInf(b) THEN b
    ELSE F(a.n * b.d + b.n * a.d, a.d * b.d)

\* a * b  (inf * 0 = NaN)
FMul(a, b) == F(a.n * b.n, a.d * b.d)

\* a / b for a finite b # 0
FDiv(a, b) ==
    IF b.n > 0 THEN FMul(a, F(b.d, b.n)) ELSE FMul(a, F(-b.d, -b.n))

\* a < b on values that are no roots; every comparison with NaN is false
PLt(a, b) ==
    IF IsNaN(a) \/ IsNaN(b) THEN FALSE
    ELSE IF a.d = 0 /\ b.d = 0 THEN a.n < b.n
    ELSE a.n * b.d < b.n * a.d

FSquare(x) == IF x.root THEN F(x.n, x.d) ELSE F(x.n * x.n, x.d * x.d)

FSign(x) == IF x.root THEN 1 ELSE Sign(x.n)

\* a < b
FLt(a, b) ==
    IF IsNaN(a) \/ IsNaN(b) THEN FALSE
    ELSE IF ~a.root /\ ~b.root THEN PLt(a, b)
    ELSE IF FSign(a) < 0 THEN FSign(b) >= 0
    ELSE IF FSign(b) <= 0 THEN FALSE
    ELSE PLt(FSquare(a), FSquare(b))

\* a > b
FGt(a, b) == FLt(b, a)

\* a <= b
FLe(a, b) == ~IsNaN(a) /\ ~IsNaN(b) /\ ~FLt(b, a)

RECURSIVE ISqrtFrom(_, _)
ISqrtFrom(n, s) == IF (s + 1) * (s + 1) > n THEN s ELSE ISqrtFrom(n, s + 1)

\* floor of the square root of n >= 0
ISqrt(n) == ISqrtFrom(n, 0)

\* np.sqrt(x) for x >= 0
FSqrt(x) ==
    IF x.d = 0 THEN x
    ELSE LET rn == ISqrt(x.n)
             rd == ISqrt(x.d)
         IN  IF rn * rn = x.n /\ rd * rd = x.d THEN F(rn, rd)
             ELSE [n |-> x.n, d |-> x.d, root |-> TRUE]

RECURSIVE FSum(_)
\* sum(...) of a list of floats, left to right from 0
FSum(s) == IF s = <<>> THEN F(0, 1)
           ELSE FAdd(FSum(SubSeq(s, 1, Len(s) - 1)), s[Len(s)])

\* np.mean([...]) of a non-empty list
FMean(s) == FDiv(FSum(s), F(Len(s), 1))

\* np.clip(x, lo, hi) = minimum(maximum(x, lo), hi); NaN propagates
FClip(x, lo, hi) ==
    IF IsNaN(x) THEN NaN
    ELSE IF FLt(x, lo) THEN lo
    ELSE IF FGt(x, hi) THEN hi
    ELSE x

\* the decimal literal h/100
Dec(h) == F(h, 100)

-----------------------------------------------------------------------------
(* NitrogenEstimator.estimate_n_content_from_indices *)

\* ndre_n = 4.14 * ndre + 0.42
ndre_n(ndre) == FAdd(FMul(Dec(414), ndre), Dec(42))

\* ci_n = 2.88 * ci + 0.97
ci_n(ci) == FAdd(FMul(Dec(288), ci), Dec(97))

\* mcari_n = 3.52 * mcari + 1.12
mcari_n(mcari) == FAdd(FMul(Dec(352), mcari), Dec(112))

\* n_estimates with the first if-block testing and reading 'NDVI'
n_estimates_ndvi_key(ind) ==
    (IF "NDVI" \in DOMAIN ind
     THEN << <<"NDRE", ndre_n(ind["NDVI"]), Dec(89)>> >> ELSE <<>>)
    \o
    (IF "CIred-edge" \in DOMAIN ind
     THEN << <<"CIred-edge", ci_n(ind["CIred-edge"]), Dec(87)>> >> ELSE <<>>)
    \o
    (IF "MCARI" \in DOMAIN ind
     THEN << <<"MCARI", mcari_n(ind["MCARI"]), Dec(83)>> >> ELSE <<>>)

\* the (name, estimate, weight) triples appended to n_estimates, in the
\* order of the three if-blocks
n_estimates(ind) ==
    (IF "NDRE" \in DOMAIN ind
     THEN << <<"NDRE", ndre_n(ind["NDRE"]), Dec(89)>> >> ELSE <<>>)
    \o
    (IF "CIred-edge" \in DOMAIN ind
     THEN << <<"CIred-edge", ci_n(ind["CIred-edge"]), Dec(87)>> >> ELSE <<>>)
    \o
    (IF "MCARI" \in DOMAIN ind
     THEN << <<"MCARI", mcari_n(ind["MCARI"]), Dec(83)>> >> ELSE <<>>)

\* the reference RMSE stored with each method
method_rmse(name) ==
    CASE name = "NDRE" -> Dec(31)
      [] name = "CIred-edge" -> Dec(34)
      [] name = "MCARI" -> Dec(39)

\* confidence_intervals storing the clipped estimate
confidence_intervals_clipped(ind) ==
    LET ne == n_estimates(ind)
    IN  [name \in {ne[i][1] : i \in 1..Len(ne)} |->
            LET e == CHOOSE i \in 1..Len(ne) : ne[i][1] = name
            IN  [estimate |-> FClip(ne[e][2], Dec(150), Dec(600)),
                 rmse |-> method_rmse(name), r2 |-> ne[e][3]]]

\* the confidence_intervals dict filled by the three if-blocks
confidence_intervals(ind) ==
    LET ne == n_estimates(ind)
    IN  [name \in {ne[i][1] : i \in 1..Len(ne)} |->
            LET e == CHOOSE i \in 1..Len(ne) : ne[i][1] = name
            IN  [estimate |-> ne[e][2], rmse |-> method_rmse(name), r2 |-> ne[e][3]]]

\* savi_correction with <= and >= for < and >
savi_correction_nonstrict(ind) ==
    IF "SAVI" \in DOMAIN ind
    THEN IF FLe(ind["SAVI"], Dec(20)) THEN Dec(85)
         ELSE IF FLe(Dec(70), ind["SAVI"]) THEN Dec(112)
         ELSE Dec(100)
    ELSE Dec(100)

\* savi_correction: 1.0 unless SAVI is present and below 0.2 or above 0.7
savi_correction(ind) ==
    IF "SAVI" \in DOMAIN ind
    THEN IF FLt(ind["SAVI"], Dec(20)) THEN Dec(85)
         ELSE IF FGt(ind["SAVI"], Dec(70)) THEN Dec(112)
         ELSE Dec(100)
    ELSE Dec(100)

\* total_weight = sum(weight for _, _, weight in n_estimates)
total_weight(ne) == FSum([i \in 1..Len(ne) |-> ne[i][3]])

\* weighted_n as the plain mean of the estimates
weighted_n_unweighted(ne) == FMean([i \in 1..Len(ne) |-> ne[i][2]])

\* weighted_n = sum(est * weight ...) / total_weight
weighted_n(ne) ==
    FDiv(FSum([i \in 1..Len(ne) |-> FMul(ne[i][2], ne[i][3])]), total_weight(ne))

\* n_content with the clip taken before the SAVI correction
n_content_clip_first(ne, corr) == FMul(FClip(weighted_n(ne), Dec(150), Dec(600)), corr)

\* n_content = np.clip(weighted_n * savi_correction, 1.5, 6.0)
n_content(ne, corr) == FClip(FMul(weighted_n(ne), corr), Dec(150), Dec(600))

\* the values of a dict, in insertion order
DictValues(ne, ci) == [i \in 1..Len(ne) |-> ci[ne[i][1]]]

\* rmse_weighted as the plain mean of the RMSEs
rmse_weighted_linear(ne, ci) ==
    LET vals == DictValues(ne, ci)
    IN  FMean([i \in 1..Len(vals) |-> vals[i].rmse])

\* rmse_weighted = np.sqrt(np.mean([ci['rmse']**2 for ci in ...]))
rmse_weighted(ne, ci) ==
    LET vals == DictValues(ne, ci)
    IN  FSqrt(FMean([i \in 1..Len(vals) |-> FMul(vals[i].rmse, vals[i].rmse)]))

\* r2_mean = np.mean([ci['r2'] for ci in ...])
r2_mean(ne, ci) ==
    LET vals == DictValues(ne, ci)
    IN  FMean([i \in 1..Len(vals) |-> vals[i].r2])

\* method_weights without the division by total_weight
method_weights_raw(ne) ==
    [name \in {ne[i][1] : i \in 1..Len(ne)} |->
        LET e == CHOOSE i \in 1..Len(ne) : ne[i][1] = name
        IN  ne[e][3]]

\* method_weights = {name: weight/total_weight for name, _, weight in ...}
method_weights(ne) ==
    [name \in {ne[i][1] : i \in 1..Len(ne)} |->
        LET e == CHOOSE i \in 1..Len(ne) : ne[i][1] = name
        IN  FDiv(ne[e][3], total_weight(ne))]

\* the outcome of a call: a returned value or a raised exception
Return(v) == [raised |-> "none", value |-> v]
Raise(exc, msg) == [raised |-> exc, message |-> msg]

\* a value that is not a number: the string "n/a"
NotANumber == [str |-> "n/a"]
IsNumber(v) == "n" \in DOMAIN v

\* 4.14 * ndre (or 2.88 * ci, 3.52 * mcari) and savi < 0.2 raise TypeError on a
\* string; the SAVI comparison comes before the check for an empty n_estimates
estimate_n_content_from_indices(ind) ==
    LET ne == n_estimates(ind)
        ci == confidence_intervals(ind)
    IN  IF \E k \in DOMAIN ind \cap {"NDRE", "CIred-edge", "MCARI"} : ~IsNumber(ind[k])
        THEN Raise("TypeError", "can't multiply sequence by non-int of type 'float'")
        ELSE IF "SAVI" \in DOMAIN ind /\ ~IsNumber(ind["SAVI"])
        THEN Raise("TypeError", "'<' not supported between instances of 'str' and 'float'")
        ELSE IF ne # <<>>
        THEN Return([n_content |-> n_content(ne, savi_correction(ind)),
                     confidence_intervals |-> ci,
                     uncertainty |-> [rmse |-> rmse_weighted(ne, ci),
                                      r2_mean |-> r2_mean(ne, ci),
                                      sample_size |-> Len(ne)],
                     method_weights |-> method_weights(ne)])
        ELSE Raise("ValueError", "No valid indices available for N content estimation")

-----------------------------------------------------------------------------
(* NitrogenEstimator.get_estimation_quality *)

\* get_estimation_quality with >= and <= for > and <
get_estimation_quality_nonstrict(u) ==
    IF ~FLt(u.r2_mean, Dec(85)) /\ ~FGt(u.rmse, Dec(35)) THEN "High Confidence"
    ELSE IF ~FLt(u.r2_mean, Dec(75)) /\ ~FGt(u.rmse, Dec(45)) THEN "Moderate Confidence"
    ELSE "Low Confidence"

\* either threshold of a level suffices
get_estimation_quality_either(u) ==
    IF FGt(u.r2_mean, Dec(85)) \/ FLt(u.rmse, Dec(35)) THEN "High Confidence"
    ELSE IF FGt(u.r2_mean, Dec(75)) \/ FLt(u.rmse, Dec(45)) THEN "Moderate Confidence"
    ELSE "Low Confidence"

get_estimation_quality(u) ==
    IF FGt(u.r2_mean, Dec(85)) /\ FLt(u.rmse, Dec(35)) THEN "High Confidence"
    ELSE IF FGt(u.r2_mean, Dec(75)) /\ FLt(u.rmse, Dec(45)) THEN "Moderate Confidence"
    ELSE "Low Confidence"

-----------------------------------------------------------------------------
(* Inputs *)

\* longest time series passed to predict
MaxLen == 3

\* dates are day numbers 1..MaxDate
MaxDate == 2

\* an optional dict entry: <<>> when the key is absent, <<v>> when present
Opt(S) == {<<>>} \cup {<<v>> : v \in S}

Keys == {"NDVI", "NDRE", "SAVI", "GNDVI", "MCARI", "CIred-edge"}

Methods == {"NDRE", "CIred-edge", "MCARI"}

\* the dict with the keys whose option is present
MakeIndices(o) == [k \in {k \in DOMAIN o : o[k] # <<>>} |-> o[k][1]]

NDREValues == {Dec(-150), Dec(0), Dec(50), Dec(200), NaN, PosInf}
CIValues == {Dec(-200), Dec(0), Dec(200), NaN, PosInf, NegInf}
MCARIValues == {Dec(-50), Dec(30), Dec(100), NaN}
SAVIValues == {Dec(10), Dec(20), Dec(60), Dec(70), Dec(80), NaN}
NDVIValues == {Dec(-100), Dec(70), Dec(150)}
GNDVIValues == {Dec(65)}

\* the index mappings estimate_n_content_from_indices is called with
IndexMappings ==
    {MakeIndices([NDRE |-> a, MCARI |-> c, SAVI |-> d, NDVI |-> e, GNDVI |-> f]
                 @@ ("CIred-edge" :> b)) :
        a \in Opt(NDREValues), b \in Opt(CIValues), c \in Opt(MCARIValues),
        d \in Opt(SAVIValues), e \in Opt(NDVIValues), f \in Opt(GNDVIValues)}

\* the sample_indices fixture of the tests
sample_indices ==
    MakeIndices([NDVI |-> <<Dec(70)>>, NDRE |-> <<Dec(50)>>, SAVI |-> <<Dec(60)>>,
                 GNDVI |-> <<Dec(65)>>, MCARI |-> <<Dec(30)>>]
                @@ ("CIred-edge" :> <<Dec(200)>>))

\* the index mappings of the entries predict is called with
EntryIndices ==
    { MakeIndices([NDVI |-> <<Dec(-100)>>]),
      MakeIndices([NDRE |-> <<NaN>>, SAVI |-> <<Dec(60)>>]),
      sample_indices }

\* entries {date, indices}
WellFormedEntries == [date : 1..MaxDate, indices : EntryIndices]

\* entries that lack a key
MalformedEntries == {[date |-> 1], [indices |-> sample_indices]}

Entries == WellFormedEntries \cup MalformedEntries

\* entries of every kind predict can meet: estimated, skipped, lacking a key
\* (with indices that would be estimated or skipped), and holding a string for
\* an index value
MixedEntries ==
    { [date |-> 1, indices |-> sample_indices],
      [date |-> 2, indices |-> MakeIndices([NDVI |-> <<Dec(-100)>>])],
      [date |-> 1],
      [indices |-> sample_indices],
      [indices |-> MakeIndices([NDVI |-> <<Dec(-100)>>])],
      [date |-> 2, indices |-> MakeIndices([NDRE |-> <<NotANumber>>, MCARI |-> <<Dec(30)>>])],
      [date |-> 1, indices |-> MakeIndices([SAVI |-> <<NotANumber>>])] }

RECURSIVE SeqsUpTo(_, _)
SeqsUpTo(S, n) ==
    IF n = 0 THEN {<<>>}
    ELSE LET shorter == SeqsUpTo(S, n - 1)
         IN  shorter \cup {Append(s, x) : s \in {t \in shorter : Len(t) = n - 1}, x \in S}

R2Inputs == {Dec(70), Dec(75), Dec(76), Dec(80), Dec(85), Dec(86), Dec(90), NaN}
RmseInputs == {Dec(30), Dec(34), Dec(35), Dec(36), Dec(40), Dec(44), Dec(45),
               Dec(50), NaN, FSqrt(Dec(12))}

-----------------------------------------------------------------------------
(* Calls *)

NoOutcome == [raised |-> "pending"]
NoUncertainty == [rmse |-> NaN, r2_mean |-> NaN]

\* self.scaler = StandardScaler(): a scaler that has not been fitted
StandardScaler == "StandardScaler()"

\* no exception
NoError == [raised |-> "none"]

\* a directory that does not exist, and one holding the image files f
NoDir == [exists |-> FALSE, files |-> <<>>]
Dir(f) == [exists |-> TRUE, files |-> f]

\* no pipeline has been constructed
PipelineIdle ==
    /\ data_dir = NoDir
    /\ output_path = "absent"
    /\ output_files = {}
    /\ csv = <<>>
    /\ time_series = <<>>
    /\ results = <<>>
    /\ run = ""
    /\ error = NoError

\* estimator.estimate_n_content_from_indices(indices) is about to run
InitEstimate ==
    /\ pc = "estimate"
    /\ indices \in IndexMappings
    /\ estimation = NoOutcome
    /\ time_series_indices = <<>>
    /\ ts_pos = 0
    /\ predictions = <<>>
    /\ stdout = <<>>
    /\ exception = ""
    /\ uncertainty = NoUncertainty
    /\ quality = ""
    /\ scaler = StandardScaler
    /\ PipelineIdle

EstimateCall ==
    /\ pc = "estimate"
    /\ estimation' = estimate_n_content_from_indices(indices)
    /\ pc' = "estimate_done"
    /\ UNCHANGED <<indices, time_series_indices, ts_pos, predictions, stdout,
                   exception, uncertainty, quality>>
    /\ UNCHANGED <<scaler, pipeline_vars>>

\* estimator.predict(time_series_indices) is about to run
InitPredict ==
    /\ pc = "predict"
    /\ time_series_indices \in SeqsUpTo(Entries, MaxLen)
    /\ ts_pos = 0
    /\ predictions = <<>>
    /\ stdout = <<>>
    /\ exception = ""
    /\ indices = <<>>
    /\ estimation = NoOutcome
    /\ uncertainty = NoUncertainty
    /\ quality = ""
    /\ scaler = StandardScaler
    /\ PipelineIdle

\* predict is about to run on entries of every kind
InitPredictMixed ==
    /\ pc = "predict"
    /\ time_series_indices \in SeqsUpTo(MixedEntries, MaxLen)
    /\ ts_pos = 0
    /\ predictions = <<>>
    /\ stdout = <<>>
    /\ exception = ""
    /\ indices = <<>>
    /\ estimation = NoOutcome
    /\ uncertainty = NoUncertainty
    /\ quality = ""
    /\ scaler = StandardScaler
    /\ PipelineIdle

\* predictions = []
PredictCall ==
    /\ pc = "predict"
    /\ predictions' = <<>>
    /\ ts_pos' = 1
    /\ pc' = "predict_loop"
    /\ UNCHANGED <<indices, estimation, time_series_indices, stdout, exception,
                   uncertainty, quality>>
    /\ UNCHANGED <<scaler, pipeline_vars>>

\* estimation_results with estimation_results['date'] = date
WithDate(res, date) ==
    [date |-> date,
     n_content |-> res.n_content,
     confidence_intervals |-> res.confidence_intervals,
     uncertainty |-> res.uncertainty,
     method_weights |-> res.method_weights]

\* the warning printed for a skipped entry
Warning(date, msg) == [date |-> date, reason |-> msg]

\* the try block for one entry: the estimate with the date attached, or the
\* exception raised on the way (a missing key raises KeyError)
TryBody(ts_data) ==
    IF "indices" \notin DOMAIN ts_data THEN Raise("KeyError", "indices")
    ELSE LET estimation_results == estimate_n_content_from_indices(ts_data["indices"])
         IN  IF estimation_results.raised # "none" THEN estimation_results
             ELSE IF "date" \notin DOMAIN ts_data THEN Raise("KeyError", "date")
             ELSE Return(WithDate(estimation_results.value, ts_data["date"]))

\* the loop body with break for continue in the handler
PredictIterate_break ==
    /\ pc = "predict_loop"
    /\ ts_pos <= Len(time_series_indices)
    /\ LET ts_data == time_series_indices[ts_pos]
           tried == TryBody(ts_data)
       IN  IF tried.raised = "none"
           THEN /\ predictions' = Append(predictions, tried.value)
                /\ ts_pos' = ts_pos + 1
                /\ UNCHANGED <<pc, stdout, exception>>
           ELSE IF tried.raised = "ValueError" /\ "date" \in DOMAIN ts_data
           THEN /\ stdout' = Append(stdout, Warning(ts_data["date"], tried.message))
                /\ ts_pos' = Len(time_series_indices) + 1
                /\ UNCHANGED <<pc, predictions, exception>>
           ELSE /\ pc' = "predict_raised"
                /\ exception' = (IF tried.raised = "ValueError" THEN "KeyError"
                                 ELSE tried.raised)
                /\ UNCHANGED <<ts_pos, predictions, stdout>>
    /\ UNCHANGED <<indices, estimation, time_series_indices, uncertainty, quality>>
    /\ UNCHANGED <<scaler, pipeline_vars>>

\* the loop body with the date also written into the entry's own indices dict
PredictIterate_dates_input ==
    /\ pc = "predict_loop"
    /\ ts_pos <= Len(time_series_indices)
    /\ LET ts_data == time_series_indices[ts_pos]
           tried == TryBody(ts_data)
       IN  IF tried.raised = "none"
           THEN /\ predictions' = Append(predictions, tried.value)
                /\ time_series_indices' =
                      [time_series_indices EXCEPT ![ts_pos]["indices"] =
                          @ @@ ("date" :> ts_data["date"])]
                /\ ts_pos' = ts_pos + 1
                /\ UNCHANGED <<pc, stdout, exception>>
           ELSE IF tried.raised = "ValueError" /\ "date" \in DOMAIN ts_data
           THEN /\ stdout' = Append(stdout, Warning(ts_data["date"], tried.message))
                /\ ts_pos' = ts_pos + 1
                /\ UNCHANGED <<pc, predictions, exception, time_series_indices>>
           ELSE /\ pc' = "predict_raised"
                /\ exception' = (IF tried.raised = "ValueError" THEN "KeyError"
                                 ELSE tried.raised)
                /\ UNCHANGED <<ts_pos, predictions, stdout, time_series_indices>>
    /\ UNCHANGED <<indices, estimation, uncertainty, quality>>
    /\ UNCHANGED <<scaler, pipeline_vars>>

\* the loop body with a handler that skips the entry without printing
PredictIterate_silent ==
    /\ pc = "predict_loop"
    /\ ts_pos <= Len(time_series_indices)
    /\ LET ts_data == time_series_indices[ts_pos]
           tried == TryBody(ts_data)
       IN  IF tried.raised = "none"
           THEN /\ predictions' = Append(predictions, tried.value)
                /\ ts_pos' = ts_pos + 1
                /\ UNCHANGED <<pc, stdout, exception>>
           ELSE IF tried.raised = "ValueError" /\ "date" \in DOMAIN ts_data
           THEN /\ ts_pos' = ts_pos + 1
                /\ UNCHANGED <<pc, predictions, exception, stdout>>
           ELSE /\ pc' = "predict_raised"
                /\ exception' = (IF tried.raised = "ValueError" THEN "KeyError"
                                 ELSE tried.raised)
                /\ UNCHANGED <<ts_pos, predictions, stdout>>
    /\ UNCHANGED <<indices, estimation, time_series_indices, uncertainty, quality>>
    /\ UNCHANGED <<scaler, pipeline_vars>>

\* the loop body with except Exception for except ValueError
PredictIterate_except_all ==
    /\ pc = "predict_loop"
    /\ ts_pos <= Len(time_series_indices)
    /\ LET ts_data == time_series_indices[ts_pos]
           tried == TryBody(ts_data)
       IN  IF tried.raised = "none"
           THEN /\ predictions' = Append(predictions, tried.value)
                /\ ts_pos' = ts_pos + 1
                /\ UNCHANGED <<pc, stdout, exception>>
           ELSE IF "date" \in DOMAIN ts_data
           THEN /\ stdout' = Append(stdout, Warning(ts_data["date"], tried.message))
                /\ ts_pos' = ts_pos + 1
                /\ UNCHANGED <<pc, predictions, exception>>
           ELSE /\ pc' = "predict_raised"
                /\ exception' = "KeyError"
                /\ UNCHANGED <<ts_pos, predictions, stdout>>
    /\ UNCHANGED <<indices, estimation, time_series_indices, uncertainty, quality>>
    /\ UNCHANGED <<scaler, pipeline_vars>>

\* one pass of the body of the for loop: the try block and its handler, which
\* catches ValueError only and formats the warning with ts_data['date']
PredictIterate ==
    /\ pc = "predict_loop"
    /\ ts_pos <= Len(time_series_indices)
    /\ LET ts_data == time_series_indices[ts_pos]
           tried == TryBody(ts_data)
       IN  IF tried.raised = "none"
           THEN /\ predictions' = Append(predictions, tried.value)
                /\ ts_pos' = ts_pos + 1
                /\ UNCHANGED <<pc, stdout, exception>>
           ELSE IF tried.raised = "ValueError" /\ "date" \in DOMAIN ts_data
           THEN /\ stdout' = Append(stdout, Warning(ts_data["date"], tried.message))
                /\ ts_pos' = ts_pos + 1
                /\ UNCHANGED <<pc, predictions, exception>>
           ELSE /\ pc' = "predict_raised"
                /\ exception' = (IF tried.raised = "ValueError" THEN "KeyError"
                                 ELSE tried.raised)
                /\ UNCHANGED <<ts_pos, predictions, stdout>>
    /\ UNCHANGED <<indices, estimation, time_series_indices, uncertainty, quality>>
    /\ UNCHANGED <<scaler, pipeline_vars>>

\* the return with an empty result rejected
PredictReturn_rejects_empty ==
    /\ pc = "predict_loop"
    /\ ts_pos > Len(time_series_indices)
    /\ IF predictions = <<>>
       THEN pc' = "predict_raised" /\ exception' = "ValueError"
       ELSE pc' = "predict_done" /\ UNCHANGED exception
    /\ UNCHANGED <<indices, estimation, time_series_indices, ts_pos, predictions,
                   stdout, uncertainty, quality>>
    /\ UNCHANGED <<scaler, pipeline_vars>>

\* return predictions
PredictReturn ==
    /\ pc = "predict_loop"
    /\ ts_pos > Len(time_series_indices)
    /\ pc' = "predict_done"
    /\ UNCHANGED <<indices, estimation, time_series_indices, ts_pos, predictions,
                   stdout, exception, uncertainty, quality>>
    /\ UNCHANGED <<scaler, pipeline_vars>>

\* estimator.get_estimation_quality(uncertainty) is about to run
InitQuality ==
    /\ pc = "quality"
    /\ uncertainty \in [rmse : RmseInputs, r2_mean : R2Inputs]
    /\ quality = ""
    /\ indices = <<>>
    /\ estimation = NoOutcome
    /\ time_series_indices = <<>>
    /\ ts_pos = 0
    /\ predictions = <<>>
    /\ stdout = <<>>
    /\ exception = ""
    /\ scaler = StandardScaler
    /\ PipelineIdle

QualityCall ==
    /\ pc = "quality"
    /\ quality' = get_estimation_quality(uncertainty)
    /\ pc' = "quality_done"
    /\ UNCHANGED <<indices, estimation, time_series_indices, ts_pos, predictions,
                   stdout, exception, uncertainty>>
    /\ UNCHANGED <<scaler, pipeline_vars>>

-----------------------------------------------------------------------------
(* DataLoader *)

\* most image files in the data directory
MaxFiles == 2

\* a - b
FSub(a, b) == FAdd(a, F(-b.n, b.d))

\* x == 0.0
IsZero(x) == x.n = 0 /\ x.d # 0

\* a / b for b # 0.0 (inf / inf = NaN, finite / inf = 0)
PyDiv(a, b) ==
    IF IsNaN(a) \/ IsNaN(b) THEN NaN
    ELSE IF IsInf(b) THEN (IF IsInf(a) THEN NaN ELSE F(0, 1))
    ELSE FDiv(a, b)

RECURSIVE SortedSeq(_)
\* sorted(S) for a set of file names; names are numbers that compare as
\* the paths do
SortedSeq(S) ==
    IF S = {} THEN <<>>
    ELSE LET least == CHOOSE x \in S : \A y \in S : x <= y
         IN  <<least>> \o SortedSeq(S \ {least})

\* self.data_dir.glob('*.tif'): nothing for a directory that does not exist
glob(dir) == IF dir.exists THEN DOMAIN dir.files ELSE {}

\* the date of an image: its 'date' tag when it has one, else the last
\* '_'-separated part of the file stem; 0 stands for a missing tag and for
\* a stem part strptime cannot parse
FileDate(img) == IF img.tag # 0 THEN img.tag ELSE img.stem

\* load_time_series without the check for an empty list of files
load_time_series_unchecked(dir) ==
    LET image_files == SortedSeq(glob(dir))
    IN  IF \E i \in 1..Len(image_files) : FileDate(dir.files[image_files[i]]) = 0
        THEN Raise("ValueError", "time data does not match format '%Y%m%d'")
        ELSE Return([i \in 1..Len(image_files) |->
                        LET img == dir.files[image_files[i]]
                        IN  [date |-> FileDate(img),
                             blue |-> img.bands.blue, green |-> img.bands.green,
                             red |-> img.bands.red, nir |-> img.bands.nir,
                             red_edge |-> img.bands.red_edge]])

\* DataLoader.load_time_series: one record per image file, in the order of
\* the sorted file names
load_time_series(dir) ==
    LET image_files == SortedSeq(glob(dir))
    IN  IF image_files = <<>>
        THEN Raise("ValueError", "No .tif files found")
        ELSE IF \E i \in 1..Len(image_files) :
                    FileDate(dir.files[image_files[i]]) = 0
        THEN Raise("ValueError", "time data does not match format '%Y%m%d'")
        ELSE Return([i \in 1..Len(image_files) |->
                        LET img == dir.files[image_files[i]]
                        IN  [date |-> FileDate(img),
                             blue |-> img.bands.blue, green |-> img.bands.green,
                             red |-> img.bands.red, nir |-> img.bands.nir,
                             red_edge |-> img.bands.red_edge]])

\* the indices dict of one row; the band means are Python floats, so a zero
\* divisor raises ZeroDivisionError
RowIndices(row) ==
    LET nir_red == FAdd(row.nir, row.red)
        nir_red_edge == FAdd(row.nir, row.red_edge)
        nir_red_half == FAdd(nir_red, Dec(50))
        nir_green == FAdd(row.nir, row.green)
        nir_minus_red == FSub(row.nir, row.red)
        savi_numerator == FMul(Dec(150), nir_minus_red)
        red_edge_minus_red == FSub(row.red_edge, row.red)
        red_edge_minus_green == FSub(row.red_edge, row.green)
        mcari_second == FMul(Dec(20), red_edge_minus_green)
        mcari_first == FSub(red_edge_minus_red, mcari_second)
        red_edge_by_red == PyDiv(row.red_edge, row.red)
        nir_by_red_edge == PyDiv(row.nir, row.red_edge)
    IN  IF \E x \in {nir_red, nir_red_edge, nir_red_half, nir_green,
                     row.red, row.red_edge} : IsZero(x)
        THEN Raise("ZeroDivisionError", "float division by zero")
        ELSE Return(
            ("NDVI" :> PyDiv(nir_minus_red, nir_red))
            @@ ("NDRE" :> PyDiv(FSub(row.nir, row.red_edge), nir_red_edge))
            @@ ("SAVI" :> PyDiv(savi_numerator, nir_red_half))
            @@ ("GNDVI" :> PyDiv(FSub(row.nir, row.green), nir_green))
            @@ ("MCARI" :> FMul(mcari_first, red_edge_by_red))
            @@ ("CIred-edge" :> FSub(nir_by_red_edge, F(1, 1))))

\* DataLoader.calculate_vegetation_indices: loads the time series again and
\* appends one {'date', 'indices'} entry per row
calculate_vegetation_indices(dir) ==
    LET df == load_time_series(dir)
    IN  IF df.raised # "none" THEN df
        ELSE IF \E i \in 1..Len(df.value) : RowIndices(df.value[i]).raised # "none"
        THEN Raise("ZeroDivisionError", "float division by zero")
        ELSE Return([i \in 1..Len(df.value) |->
                        [date |-> df.value[i].date,
                         indices |-> RowIndices(df.value[i]).value]])

\* band means that give NDRE 0.5, CIred-edge 2.0 and MCARI 0.3, those of an
\* all-zero image, and those of an image with NaN pixels in its
\* near-infrared band
TestBands == [blue |-> Dec(10), green |-> Dec(45), red |-> Dec(10),
              nir |-> Dec(60), red_edge |-> Dec(20)]
ZeroBands == [blue |-> F(0, 1), green |-> F(0, 1), red |-> F(0, 1),
              nir |-> F(0, 1), red_edge |-> F(0, 1)]
NaNBands == [TestBands EXCEPT !.nir = NaN]
BandMeans == {TestBands, ZeroBands, NaNBands}

\* an image file: a dated tag, or no tag and a stem that ends in a date or
\* in something else
ImageFiles ==
    [tag : 1..MaxDate, stem : {0}, bands : BandMeans]
    \cup [tag : {0}, stem : 0..MaxDate, bands : BandMeans]

\* the data directories: a missing one, and every set of at most MaxFiles
\* image files
DataDirs ==
    {NoDir} \cup {Dir(f) : f \in UNION {[names -> ImageFiles] : names \in SUBSET (1..MaxFiles)}}

-----------------------------------------------------------------------------
(* NitrogenEstimationPipeline *)

\* NitrogenEstimationPipeline(data_dir, output_dir) is about to be constructed
InitPipeline ==
    /\ run = "construct"
    /\ data_dir \in DataDirs
    /\ output_path \in {"absent", "dir", "file"}
    /\ output_files = {}
    /\ csv = <<>>
    /\ time_series = <<>>
    /\ results = <<>>
    /\ error = NoError
    /\ pc = "idle"
    /\ scaler = ""
    /\ indices = <<>>
    /\ estimation = NoOutcome
    /\ time_series_indices = <<>>
    /\ ts_pos = 0
    /\ predictions = <<>>
    /\ stdout = <<>>
    /\ exception = ""
    /\ uncertainty = NoUncertainty
    /\ quality = ""

\* __init__: output_dir.mkdir(parents=True, exist_ok=True) raises
\* FileExistsError when the path exists and is no directory; then the
\* loader and the estimator are created
Construct ==
    /\ run = "construct"
    /\ IF output_path = "file"
       THEN /\ run' = "raised"
            /\ error' = Raise("FileExistsError", "File exists")
            /\ UNCHANGED <<output_path, scaler>>
       ELSE /\ output_path' = "dir"
            /\ scaler' = StandardScaler
            /\ run' = "constructed"
            /\ UNCHANGED error
    /\ UNCHANGED <<data_dir, output_files, csv, time_series, results>>
    /\ UNCHANGED <<pc, indices, estimation, time_series_indices, ts_pos,
                   predictions, stdout, exception, uncertainty, quality>>

\* run_pipeline, step 1: time_series_data = self.data_loader.load_time_series()
RunLoad ==
    /\ run = "constructed"
    /\ LET loaded == load_time_series(data_dir)
       IN  IF loaded.raised # "none"
           THEN run' = "raised" /\ error' = loaded /\ UNCHANGED time_series
           ELSE run' = "loaded" /\ time_series' = loaded.value /\ UNCHANGED error
    /\ UNCHANGED <<data_dir, output_path, output_files, csv, results>>
    /\ UNCHANGED estimator_vars

\* run_pipeline, steps 2 and 3 up to the call: indices =
\* self.data_loader.calculate_vegetation_indices(), then
\* self.n_estimator.predict(indices) is entered
RunIndices ==
    /\ run = "loaded"
    /\ LET calculated == calculate_vegetation_indices(data_dir)
       IN  IF calculated.raised # "none"
           THEN /\ run' = "raised"
                /\ error' = calculated
                /\ UNCHANGED <<pc, time_series_indices>>
           ELSE /\ run' = "predicting"
                /\ time_series_indices' = calculated.value
                /\ pc' = "predict"
                /\ UNCHANGED error
    /\ UNCHANGED <<data_dir, output_path, output_files, csv, time_series, results>>
    /\ UNCHANGED <<indices, estimation, ts_pos, predictions, stdout, exception,
                   uncertainty, quality, scaler>>

\* the text to_csv writes for a float: an empty field for NaN, else the repr
\* of the float, which is the shortest text that reads back as that float
CsvFloat(x) == IF IsNaN(x) THEN [text |-> ""] ELSE [text |-> "repr", float |-> x]

\* x rounded to two decimals
Round2(x) == IF IsFinite(x) THEN F((200 * x.n + x.d) \div (2 * x.d), 100) ELSE x

\* the row with n_content written with two decimals
CsvRow_rounded(analysis) ==
    [date |-> analysis.date,
     n_content |-> CsvFloat(Round2(analysis.n_content)),
     rmse |-> CsvFloat(analysis.uncertainty.rmse),
     r2_mean |-> CsvFloat(analysis.uncertainty.r2_mean),
     estimation_quality |-> get_estimation_quality(analysis.uncertainty),
     weight |-> [m \in DOMAIN analysis.method_weights |->
                    CsvFloat(analysis.method_weights[m])],
     estimate |-> [m \in DOMAIN analysis.confidence_intervals |->
                    CsvFloat(analysis.confidence_intervals[m].estimate)],
     method_rmse |-> [m \in DOMAIN analysis.confidence_intervals |->
                    CsvFloat(analysis.confidence_intervals[m].rmse)],
     method_r2 |-> [m \in DOMAIN analysis.confidence_intervals |->
                    CsvFloat(analysis.confidence_intervals[m].r2)]]

\* the row _save_results builds for one result, as written by to_csv
CsvRow(analysis) ==
    [date |-> analysis.date,
     n_content |-> CsvFloat(analysis.n_content),
     rmse |-> CsvFloat(analysis.uncertainty.rmse),
     r2_mean |-> CsvFloat(analysis.uncertainty.r2_mean),
     estimation_quality |-> get_estimation_quality(analysis.uncertainty),
     weight |-> [m \in DOMAIN analysis.method_weights |->
                    CsvFloat(analysis.method_weights[m])],
     estimate |-> [m \in DOMAIN analysis.confidence_intervals |->
                    CsvFloat(analysis.confidence_intervals[m].estimate)],
     method_rmse |-> [m \in DOMAIN analysis.confidence_intervals |->
                    CsvFloat(analysis.confidence_intervals[m].rmse)],
     method_r2 |-> [m \in DOMAIN analysis.confidence_intervals |->
                    CsvFloat(analysis.confidence_intervals[m].r2)]]

\* the rows of results_df, one per result in the order of analysis_results
ResultRows(analysis_results) ==
    [i \in 1..Len(analysis_results) |-> CsvRow(analysis_results[i])]

\* _save_results up to results_df.to_csv(... 'nitrogen_analysis.csv'), run
\* when predict has returned
SaveCsv ==
    /\ run = "predicting"
    /\ pc = "predict_done"
    /\ csv' = ResultRows(predictions)
    /\ output_files' = output_files \cup {"nitrogen_analysis.csv"}
    /\ run' = "csv_saved"
    /\ UNCHANGED <<data_dir, output_path, time_series, results, error>>
    /\ UNCHANGED estimator_vars

\* _plot_time_series_analysis: df['date'] of a frame without rows is a
\* KeyError; the rows are sorted by date in a local copy only
PlotTimeSeriesAnalysis ==
    /\ run = "csv_saved"
    /\ IF csv = <<>>
       THEN /\ run' = "raised"
            /\ error' = Raise("KeyError", "date")
            /\ UNCHANGED output_files
       ELSE /\ output_files' = output_files \cup {"n_content_analysis.png"}
            /\ run' = "time_series_plotted"
            /\ UNCHANGED error
    /\ UNCHANGED <<data_dir, output_path, csv, time_series, results>>
    /\ UNCHANGED estimator_vars

\* _plot_method_comparison
PlotMethodComparison ==
    /\ run = "time_series_plotted"
    /\ output_files' = output_files \cup {"method_comparison.png"}
    /\ run' = "methods_plotted"
    /\ UNCHANGED <<data_dir, output_path, csv, time_series, results, error>>
    /\ UNCHANGED estimator_vars

\* _plot_uncertainty_analysis
PlotUncertaintyAnalysis ==
    /\ run = "methods_plotted"
    /\ output_files' = output_files \cup {"uncertainty_analysis.png"}
    /\ run' = "uncertainty_plotted"
    /\ UNCHANGED <<data_dir, output_path, csv, time_series, results, error>>
    /\ UNCHANGED estimator_vars

\* _save_technical_report
SaveTechnicalReport ==
    /\ run = "uncertainty_plotted"
    /\ output_files' = output_files \cup {"technical_report.txt"}
    /\ run' = "report_saved"
    /\ UNCHANGED <<data_dir, output_path, csv, time_series, results, error>>
    /\ UNCHANGED estimator_vars

\* return analysis_results
RunReturn ==
    /\ run = "report_saved"
    /\ results' = predictions
    /\ run' = "returned"
    /\ UNCHANGED <<data_dir, output_path, output_files, csv, time_series, error>>
    /\ UNCHANGED estimator_vars

NextPipeline ==
    \/ Construct \/ RunLoad \/ RunIndices
    \/ PredictCall \/ PredictIterate \/ PredictReturn
    \/ SaveCsv \/ PlotTimeSeriesAnalysis \/ PlotMethodComparison
    \/ PlotUncertaintyAnalysis \/ SaveTechnicalReport \/ RunReturn
SpecPipeline == InitPipeline /\ [][NextPipeline]_vars

-----------------------------------------------------------------------------
(* DataLoader called on its own *)

\* band means on a grid over [0, 1]
UnitValues == {F(0, 1), Dec(10), Dec(50), F(1, 1)}
UnitBandMeans ==
    [blue : {Dec(10)}, green : UnitValues, red : UnitValues,
     nir : UnitValues, red_edge : UnitValues]

\* the directories a loader is given: those of the pipeline, and one tagged
\* image for each of the band means on the grid
LoaderDirs ==
    DataDirs
    \cup {Dir(1 :> [tag |-> 1, stem |-> 0, bands |-> b]) : b \in UnitBandMeans}

\* DataLoader(data_dir).load_time_series() or .calculate_vegetation_indices()
\* is about to run
InitLoader ==
    /\ run \in {"load_time_series", "calculate_vegetation_indices"}
    /\ data_dir \in LoaderDirs
    /\ output_path = "absent"
    /\ output_files = {}
    /\ csv = <<>>
    /\ time_series = <<>>
    /\ results = <<>>
    /\ error = NoError
    /\ pc = "idle"
    /\ scaler = ""
    /\ indices = <<>>
    /\ estimation = NoOutcome
    /\ time_series_indices = <<>>
    /\ ts_pos = 0
    /\ predictions = <<>>
    /\ stdout = <<>>
    /\ exception = ""
    /\ uncertainty = NoUncertainty
    /\ quality = ""

\* df = loader.load_time_series()
LoadTimeSeriesCall ==
    /\ run = "load_time_series"
    /\ LET loaded == load_time_series(data_dir)
       IN  IF loaded.raised # "none"
           THEN run' = "loader_raised" /\ error' = loaded /\ UNCHANGED time_series
           ELSE run' = "loader_returned" /\ time_series' = loaded.value
                /\ UNCHANGED error
    /\ UNCHANGED <<data_dir, output_path, output_files, csv, results>>
    /\ UNCHANGED estimator_vars

\* indices = loader.calculate_vegetation_indices()
CalculateIndicesCall ==
    /\ run = "calculate_vegetation_indices"
    /\ LET calculated == calculate_vegetation_indices(data_dir)
       IN  IF calculated.raised # "none"
           THEN /\ run' = "loader_raised"
                /\ error' = calculated
                /\ UNCHANGED time_series_indices
           ELSE /\ run' = "indices_returned"
                /\ time_series_indices' = calculated.value
                /\ UNCHANGED error
    /\ UNCHANGED <<data_dir, output_path, output_files, csv, time_series, results>>
    /\ UNCHANGED <<pc, indices, estimation, ts_pos, predictions, stdout, exception,
                   uncertainty, quality, scaler>>

NextLoader == LoadTimeSeriesCall \/ CalculateIndicesCall
SpecLoader == InitLoader /\ [][NextLoader]_vars

-----------------------------------------------------------------------------
(* A result of the estimator handed to the classifier *)

\* self.estimator.get_estimation_quality(result['uncertainty'])
ClassifyResult ==
    /\ pc = "estimate_done"
    /\ estimation.raised = "none"
    /\ uncertainty' = estimation.value.uncertainty
    /\ quality' = get_estimation_quality(estimation.value.uncertainty)
    /\ pc' = "quality_done"
    /\ UNCHANGED <<indices, estimation, time_series_indices, ts_pos, predictions,
                   stdout, exception>>
    /\ UNCHANGED <<scaler, pipeline_vars>>

NextEstimateQuality == EstimateCall \/ ClassifyResult
SpecEstimateQuality == InitEstimate /\ [][NextEstimateQuality]_vars

NextEstimate == EstimateCall
SpecEstimate == InitEstimate /\ [][NextEstimate]_vars

NextPredict == PredictCall \/ PredictIterate \/ PredictReturn
SpecPredict == InitPredict /\ [][NextPredict]_vars
SpecPredictMixed == InitPredictMixed /\ [][NextPredict]_vars

NextQuality == QualityCall
SpecQuality == InitQuality /\ [][NextQuality]_vars

Init == InitEstimate \/ InitPredict \/ InitQuality
Next == EstimateCall \/ PredictCall \/ PredictIterate \/ PredictReturn \/ QualityCall
Spec == Init /\ [][Next]_vars

-----------------------------------------------------------------------------
(* Properties of estimate_n_content_from_indices *)

\* the methods whose source index is present
Applicable(ind) == Methods \cap DOMAIN ind

\* the applicable methods in the order of the regression table
MethodOrder == <<"NDRE", "CIred-edge", "MCARI">>
IsApplicableIn(ind, m) == m \in DOMAIN ind
ApplicableSeq(ind) == SelectSeq(MethodOrder, LAMBDA m : IsApplicableIn(ind, m))

\* the regression table of the specification
RefR2(m) == CASE m = "NDRE" -> Dec(89) [] m = "CIred-edge" -> Dec(87) [] m = "MCARI" -> Dec(83)
RefSlope(m) == CASE m = "NDRE" -> Dec(414) [] m = "CIred-edge" -> Dec(288) [] m = "MCARI" -> Dec(352)
RefIntercept(m) == CASE m = "NDRE" -> Dec(42) [] m = "CIred-edge" -> Dec(97) [] m = "MCARI" -> Dec(112)
RefEstimate(m, v) == FAdd(FMul(RefSlope(m), v), RefIntercept(m))

Estimated == pc = "estimate_done"
Returned == pc = "estimate_done" /\ estimation.raised = "none"

\* the SAVI-corrected fused value, before the clamp
CorrectedFused(ind) == FMul(weighted_n(n_estimates(ind)), savi_correction(ind))

\* C1: whenever the mapping holds at least one of NDRE, CIred-edge, MCARI, the
\* call returns (no error) and 1.5 <= n_content <= 6.0; a corrected fused
\* value below 1.5 gives exactly 1.5 and one above 6.0 exactly 6.0.
C1_NContentInRange ==
    (Estimated /\ Applicable(indices) # {}) =>
        /\ estimation.raised = "none"
        /\ FLe(Dec(150), estimation.value.n_content)
        /\ FLe(estimation.value.n_content, Dec(600))
        /\ FLt(CorrectedFused(indices), Dec(150)) => estimation.value.n_content = Dec(150)
        /\ FGt(CorrectedFused(indices), Dec(600)) => estimation.value.n_content = Dec(600)

\* C2: the call raises ValueError exactly for the mappings that hold none of
\* NDRE, CIred-edge, MCARI (the empty one included), whatever else they hold.
C2_RaisesIffNoMethod ==
    Estimated =>
        /\ estimation.raised \in {"none", "ValueError"}
        /\ estimation.raised = "ValueError" <=> Applicable(indices) = {}

C2_Witness ==
    /\ Estimated
    /\ {"NDVI", "GNDVI", "SAVI"} \subseteq DOMAIN indices
    /\ indices["NDVI"] = Dec(-100)
    /\ estimation.raised = "ValueError"

\* the plausible domain of each index
InDomain(k, v) ==
    CASE k \in {"NDVI", "NDRE", "GNDVI"} -> FLe(Dec(-100), v) /\ FLe(v, Dec(100))
      [] k = "SAVI" -> FLe(Dec(-150), v) /\ FLe(v, Dec(150))
      [] k = "MCARI" -> FLe(Dec(0), v)
      [] k = "CIred-edge" -> FLe(Dec(-100), v)

\* C3: a mapping with any (finite) value outside its plausible domain is
\* rejected with the validation error, also when an applicable method index
\* is present.
C3_OutOfDomainRejected ==
    (Estimated /\ \E k \in DOMAIN indices :
                      IsFinite(indices[k]) /\ ~InDomain(k, indices[k])) =>
        estimation.raised = "ValueError"

RECURSIVE Pow10(_)
Pow10(k) == IF k = 0 THEN 1 ELSE 10 * Pow10(k - 1)

RECURSIVE ScaledFloor(_, _, _)
\* floor(n/d * 10^k) for n >= 0, d > 0, by long division
ScaledFloor(n, d, k) ==
    IF k = 0 THEN n \div d
    ELSE (n \div d) * Pow10(k) + ScaledFloor((n % d) * 10, d, k - 1)

\* |x - t/10^6| <= 10^-6 for a finite x >= 0
WithinMillionth(x, t) ==
    /\ IsFinite(x) /\ ~x.root /\ x.n >= 0
    /\ ScaledFloor(x.n, x.d, 6) >= t - 1
    /\ ScaledFloor(x.n, x.d, 6) <= t \/ x = F(t + 1, 1000000)

\* the mapping {NDRE: 0.5, CIred-edge: 2.0, MCARI: 0.3, SAVI: 0.6}, with or
\* without NDVI and GNDVI
IsGoldenInput(ind) ==
    /\ Methods \cup {"SAVI"} \subseteq DOMAIN ind
    /\ ind["NDRE"] = Dec(50)
    /\ ind["CIred-edge"] = Dec(200)
    /\ ind["MCARI"] = Dec(30)
    /\ ind["SAVI"] = Dec(60)

\* C4 as stated: the golden input gives n_content = 3.83 within 1e-6.
C4_GoldenIs383 ==
    (Estimated /\ IsGoldenInput(indices)) =>
        /\ estimation.raised = "none"
        /\ WithinMillionth(estimation.value.n_content, 3830000)

\* C4 amended: the golden input gives n_content = 9.87728/2.59 = 3.813622
\* within 1e-6.
C4_GoldenIs3813622 ==
    (Estimated /\ IsGoldenInput(indices)) =>
        /\ estimation.raised = "none"
        /\ WithinMillionth(estimation.value.n_content, 3813622)

C4_Witness ==
    /\ Estimated
    /\ indices = sample_indices
    /\ estimation.raised = "none"
    /\ estimation.value.n_content = F(987728, 259000)

\* clamp(f * sum(estimate_i * r2_i) / sum(r2_i), 1.5, 6.0) over the applicable
\* methods of the regression table
FusedClamped(ind) ==
    LET app == ApplicableSeq(ind)
        num == FSum([i \in 1..Len(app) |->
                        FMul(RefEstimate(app[i], ind[app[i]]), RefR2(app[i]))])
        den == FSum([i \in 1..Len(app) |-> RefR2(app[i])])
    IN  FClip(FMul(savi_correction(ind), FDiv(num, den)), Dec(150), Dec(600))

\* the mapping without its NDVI and GNDVI keys
WithoutNdviGndvi(ind) == [k \in DOMAIN ind \ {"NDVI", "GNDVI"} |-> ind[k]]

\* C5: n_content is the clamp of the SAVI factor times the R2-weighted mean of
\* the applicable methods' estimates (factor inside the clamp), and NDVI and
\* GNDVI do not enter the result.
C5_WeightedFusion ==
    (Estimated /\ Applicable(indices) # {}) =>
        /\ estimation.raised = "none"
        /\ estimation.value.n_content = FusedClamped(indices)
        /\ estimation = estimate_n_content_from_indices(WithoutNdviGndvi(indices))

\* 8.7 * 0.85 = 7.395 clamps to 6.0; the clamp taken first would give 5.1
C5_Witness ==
    /\ Returned
    /\ Applicable(indices) = {"NDRE"}
    /\ indices["NDRE"] = Dec(200)
    /\ "SAVI" \in DOMAIN indices /\ indices["SAVI"] = Dec(10)
    /\ "NDVI" \in DOMAIN indices
    /\ estimation.value.n_content = Dec(600)

\* C6: method_weights has exactly the applicable methods as keys, each weight is
\* r2 / sum of the applicable r2, and the weights sum to 1.0.
C6_WeightsNormalised ==
    Returned =>
        LET w == estimation.value.method_weights
            app == ApplicableSeq(indices)
            sum_r2 == FSum([i \in 1..Len(app) |-> RefR2(app[i])])
        IN  /\ DOMAIN w = Applicable(indices)
            /\ FSum([i \in 1..Len(app) |-> w[app[i]]]) = F(1, 1)
            /\ \A m \in DOMAIN w : FMul(w[m], sum_r2) = RefR2(m)
            /\ Cardinality(DOMAIN w) = 1 => \A m \in DOMAIN w : w[m] = F(1, 1)

C6_Witness ==
    /\ Returned
    /\ Applicable(indices) = Methods
    /\ estimation.value.method_weights["NDRE"] = F(89, 259)
    /\ estimation.value.method_weights["CIred-edge"] = F(87, 259)
    /\ estimation.value.method_weights["MCARI"] = F(83, 259)

-----------------------------------------------------------------------------
(* Properties of predict *)

\* every entry has a date and indices
WellFormed(ts) == \A i \in 1..Len(ts) : DOMAIN ts[i] = {"date", "indices"}

\* the entry's estimation succeeds
EntryValid(e) == Applicable(e["indices"]) # {}

\* the result predict computes from a valid entry
ResultOf(e) == WithDate(estimate_n_content_from_indices(e["indices"]).value, e["date"])

PredictDone == pc = "predict_done"

\* C7: for well-formed entries predict returns the results of the valid
\* entries, in input order, each with its entry's date and estimate; when all
\* entries are valid the output is as long as the input and every n_content
\* lies in [1.5, 6.0].
C7_SuccessesInOrder ==
    (PredictDone /\ WellFormed(time_series_indices)) =>
        LET ok == SelectSeq(time_series_indices, EntryValid)
        IN  /\ Len(predictions) = Len(ok)
            /\ \A i \in 1..Len(ok) : predictions[i] = ResultOf(ok[i])
            /\ (\A i \in 1..Len(time_series_indices) : EntryValid(time_series_indices[i]))
                   => /\ Len(predictions) = Len(time_series_indices)
                      /\ \A i \in 1..Len(predictions) :
                            /\ FLe(Dec(150), predictions[i].n_content)
                            /\ FLe(predictions[i].n_content, Dec(600))

\* The order part alone: the output is the results of the valid entries, in
\* input order, each with its entry's date.
SuccessesKeepInputOrder ==
    (PredictDone /\ WellFormed(time_series_indices)) =>
        LET ok == SelectSeq(time_series_indices, EntryValid)
        IN  /\ Len(predictions) = Len(ok)
            /\ \A i \in 1..Len(ok) : predictions[i] = ResultOf(ok[i])

\* a later date before an earlier one, both kept as given
OutOfDateOrderKept ==
    /\ PredictDone
    /\ Len(predictions) = 2
    /\ predictions[1].date > predictions[2].date

\* C8: a validation failure never ends predict: the entry is skipped, the
\* loop goes on to every later entry and returns; with one valid and one
\* invalid entry, in either order, the output is the valid entry's result.
C8_BadObservationSkipped ==
    WellFormed(time_series_indices) =>
        /\ pc # "predict_raised"
        /\ pc = "predict_loop" =>
               /\ ts_pos <= Len(time_series_indices) + 1
               /\ Len(predictions) + Len(stdout) = ts_pos - 1
        /\ PredictDone =>
               /\ ts_pos = Len(time_series_indices) + 1
               /\ \A i \in 1..Len(time_series_indices) :
                      EntryValid(time_series_indices[i]) =>
                          \E j \in 1..Len(predictions) :
                              predictions[j] = ResultOf(time_series_indices[i])
        /\ (PredictDone /\ Len(time_series_indices) = 2) =>
               LET a == time_series_indices[1]
                   b == time_series_indices[2]
               IN  /\ (EntryValid(a) /\ ~EntryValid(b)) => predictions = <<ResultOf(a)>>
                   /\ (~EntryValid(a) /\ EntryValid(b)) => predictions = <<ResultOf(b)>>

\* an invalid entry followed by a valid one
C8_Witness ==
    /\ PredictDone
    /\ Len(time_series_indices) = 2
    /\ WellFormed(time_series_indices)
    /\ ~EntryValid(time_series_indices[1])
    /\ EntryValid(time_series_indices[2])
    /\ Len(predictions) = 1
    /\ Len(stdout) = 1

\* every entry is well formed and fails validation (also: there is no entry)
AllFail(ts) == WellFormed(ts) /\ \A i \in 1..Len(ts) : ~EntryValid(ts[i])

\* C9: predict returns the empty sequence, raising nothing, for the empty
\* input and for an input whose entries all fail validation.
C9_EmptyResultNotAnError ==
    AllFail(time_series_indices) =>
        /\ pc # "predict_raised"
        /\ exception = ""
        /\ predictions = <<>>
        /\ (pc = "predict_loop" /\ ts_pos > Len(time_series_indices)) =>
               ENABLED (PredictReturn /\ pc' = "predict_done")

C9_Witness ==
    /\ PredictDone
    /\ Len(time_series_indices) >= 2
    /\ AllFail(time_series_indices)
    /\ predictions = <<>>

-----------------------------------------------------------------------------
(* Properties of get_estimation_quality *)

QualityDone == pc = "quality_done"

HighTier(u) == FGt(u.r2_mean, Dec(85)) /\ FLt(u.rmse, Dec(35))
ModerateTier(u) == FGt(u.r2_mean, Dec(75)) /\ FLt(u.rmse, Dec(45))

\* C10: High exactly when r2_mean > 0.85 and rmse < 0.35; otherwise Moderate
\* exactly when r2_mean > 0.75 and rmse < 0.45; otherwise Low; the bounds
\* themselves fall in the lower tier.
C10_ThresholdCascade ==
    QualityDone =>
        /\ quality \in {"High Confidence", "Moderate Confidence", "Low Confidence"}
        /\ quality = "High Confidence" <=> HighTier(uncertainty)
        /\ quality = "Moderate Confidence" <=>
               (~HighTier(uncertainty) /\ ModerateTier(uncertainty))
        /\ (uncertainty.r2_mean = Dec(85) \/ uncertainty.rmse = Dec(35))
               => quality # "High Confidence"
        /\ (uncertainty.r2_mean = Dec(75) \/ uncertainty.rmse = Dec(45))
               => quality = "Low Confidence"

\* r2_mean on the High bound with a low rmse is Moderate
C10_Witness ==
    /\ QualityDone
    /\ uncertainty.r2_mean = Dec(85)
    /\ uncertainty.rmse = Dec(30)
    /\ quality = "Moderate Confidence"

-----------------------------------------------------------------------------
(* Uncertainty aggregates *)

RefRmse(m) == CASE m = "NDRE" -> Dec(31) [] m = "CIred-edge" -> Dec(34) [] m = "MCARI" -> Dec(39)

\* the number n as a float
FInt(n) == F(n, 1)

\* 0 <= x <= 1
InUnitInterval(x) == FLe(FInt(0), x) /\ FLe(x, FInt(1))

\* C11: every result has sample_size = the number of applicable methods
\* (1..3) = the number of keys of confidence_intervals and of
\* method_weights; r2_mean * sample_size is the sum of the applicable
\* reference R2; rmse^2 * sample_size is the sum of the squared reference
\* RMSEs; and rmse and r2_mean lie in [0, 1].
C11_UncertaintyAggregates ==
    Returned =>
        LET u == estimation.value.uncertainty
            A == ApplicableSeq(indices)
        IN  /\ u.sample_size = Cardinality(Applicable(indices))
            /\ u.sample_size \in 1..3
            /\ Cardinality(DOMAIN estimation.value.confidence_intervals) = u.sample_size
            /\ Cardinality(DOMAIN estimation.value.method_weights) = u.sample_size
            /\ FMul(u.r2_mean, FInt(u.sample_size))
                 = FSum([i \in 1..Len(A) |-> RefR2(A[i])])
            /\ FMul(FSquare(u.rmse), FInt(u.sample_size))
                 = FSum([i \in 1..Len(A) |-> FSquare(RefRmse(A[i]))])
            /\ InUnitInterval(u.rmse)
            /\ InUnitInterval(u.r2_mean)

\* a result over all three methods: rmse = sqrt(0.3638 / 3), r2_mean = 2.59 / 3
C11_Witness ==
    /\ Returned
    /\ estimation.value.uncertainty.sample_size = 3
    /\ estimation.value.uncertainty.rmse = [n |-> 1819, d |-> 15000, root |-> TRUE]
    /\ estimation.value.uncertainty.r2_mean = F(259, 300)

-----------------------------------------------------------------------------
(* SAVI correction *)

\* the factor the claim names, from the sign of SAVI - 0.2 and SAVI - 0.7
RefSaviFactor(ind) ==
    IF "SAVI" \in DOMAIN ind /\ ~IsNaN(ind["SAVI"])
       /\ (ind["SAVI"] = NegInf
           \/ (IsFinite(ind["SAVI"]) /\ 5 * ind["SAVI"].n < ind["SAVI"].d))
    THEN Dec(85)
    ELSE IF "SAVI" \in DOMAIN ind /\ ~IsNaN(ind["SAVI"])
            /\ (ind["SAVI"] = PosInf
                \/ (IsFinite(ind["SAVI"]) /\ 10 * ind["SAVI"].n > 7 * ind["SAVI"].d))
    THEN Dec(112)
    ELSE Dec(100)

WithoutSavi(ind) == [k \in DOMAIN ind \ {"SAVI"} |-> ind[k]]

\* C19: the factor is 0.85 exactly when SAVI is present and < 0.2, 1.12
\* exactly when SAVI is present and > 0.7, and 1.0 otherwise (absent, 0.2 and
\* 0.7 included); it multiplies the fused value before the clamp; SAVI adds
\* no key to confidence_intervals or method_weights, leaves them and
\* uncertainty as they are without SAVI, and a mapping with no method index
\* is rejected whether or not SAVI is present.
C19_SaviFactor ==
    Estimated =>
        /\ savi_correction(indices) = RefSaviFactor(indices)
        /\ Returned =>
              LET without == estimate_n_content_from_indices(WithoutSavi(indices)).value
              IN  /\ estimation.value.n_content
                       = FClip(FMul(weighted_n(n_estimates(WithoutSavi(indices))),
                                    RefSaviFactor(indices)), Dec(150), Dec(600))
                  /\ "SAVI" \notin DOMAIN estimation.value.confidence_intervals
                  /\ "SAVI" \notin DOMAIN estimation.value.method_weights
                  /\ estimation.value.confidence_intervals = without.confidence_intervals
                  /\ estimation.value.method_weights = without.method_weights
                  /\ estimation.value.uncertainty = without.uncertainty
        /\ Applicable(indices) = {} => estimation.raised = "ValueError"

\* SAVI exactly 0.2 leaves the fused value of a returned result uncorrected
C19_Witness ==
    /\ Returned
    /\ "SAVI" \in DOMAIN indices
    /\ indices["SAVI"] = Dec(20)
    /\ FLt(Dec(150), estimation.value.n_content)
    /\ FLt(estimation.value.n_content, Dec(600))
    /\ estimation.value.n_content = FusedClamped(WithoutSavi(indices))

\* a SAVI-only mapping is rejected
SaviOnlyRejected ==
    /\ Estimated
    /\ DOMAIN indices = {"SAVI"}
    /\ estimation.raised = "ValueError"

-----------------------------------------------------------------------------
(* Per-method confidence intervals *)

\* C20: confidence_intervals[m] of every applicable method m holds the
\* reference rmse and r2 of m and the raw regression value slope * index +
\* intercept as estimate, with neither the SAVI factor nor the clamp applied.
C20_RawMethodEstimates ==
    Returned =>
        /\ DOMAIN estimation.value.confidence_intervals = Applicable(indices)
        /\ \A m \in Applicable(indices) :
              LET ci == estimation.value.confidence_intervals[m]
              IN  /\ ci.rmse = RefRmse(m)
                  /\ ci.r2 = RefR2(m)
                  /\ ci.estimate = RefEstimate(m, indices[m])

\* NDRE = 2.0 with SAVI = 0.8: the method estimate is 8.70, outside the range
\* and not multiplied by 1.12, while n_content is clamped to 6.0
C20_Witness ==
    /\ Returned
    /\ DOMAIN indices \cap (Methods \cup {"SAVI"}) = {"NDRE", "SAVI"}
    /\ indices["NDRE"] = Dec(200)
    /\ indices["SAVI"] = Dec(80)
    /\ estimation.value.confidence_intervals["NDRE"].estimate = Dec(870)
    /\ FGt(estimation.value.confidence_intervals["NDRE"].estimate, Dec(600))
    /\ estimation.value.n_content = Dec(600)

-----------------------------------------------------------------------------
(* What the estimator calls leave alone *)

\* predictions keeps every result it already holds
EarlierResultsKept ==
    \A i \in 1..Len(predictions) :
        i <= Len(predictions') /\ predictions'[i] = predictions[i]

\* a result added to predictions is the estimate of the entry at ts_pos with
\* that entry's date
FreshResultDated ==
    Len(predictions') > Len(predictions) =>
        /\ Len(predictions') = Len(predictions) + 1
        /\ predictions'[Len(predictions')] = ResultOf(time_series_indices[ts_pos])
        /\ predictions'[Len(predictions')].date = time_series_indices[ts_pos]["date"]

\* C13: no step of estimate_n_content_from_indices, predict or
\* get_estimation_quality changes the scaler, the index mapping, the input
\* entries or the uncertainty argument; a step of predict that adds a result
\* adds the dated estimate of the current entry and leaves every earlier
\* result as it was.
C13_EstimatorFrame ==
    [][/\ scaler' = scaler
       /\ indices' = indices
       /\ time_series_indices' = time_series_indices
       /\ uncertainty' = uncertainty
       /\ EarlierResultsKept
       /\ FreshResultDated]_vars

\* predict has returned two results and its input entries still hold exactly
\* their 'date' and 'indices', with no date inside the indices
C13_Witness ==
    /\ PredictDone
    /\ Len(predictions) = 2
    /\ predictions[1].date # predictions[2].date
    /\ scaler = StandardScaler
    /\ WellFormed(time_series_indices)
    /\ \A i \in 1..Len(time_series_indices) :
          "date" \notin DOMAIN time_series_indices[i]["indices"]


-----------------------------------------------------------------------------
(* Properties of the loader and the pipeline *)

\* the dates of a sequence of dated records ascend
SortedByDate(seq) ==
    \A i, j \in 1..Len(seq) : i < j => seq[i].date <= seq[j].date

\* C14 as stated: the records load_time_series returns, the entries
\* calculate_vegetation_indices returns and the results of predict and of
\* run_pipeline are in ascending order of date, whatever the image files.
C14_SortedByDate ==
    /\ SortedByDate(time_series)
    /\ SortedByDate(time_series_indices)
    /\ SortedByDate(predictions)
    /\ SortedByDate(results)

\* the records follow the order of the file names
RecordsInFileNameOrder ==
    run = "loaded" =>
        LET image_files == SortedSeq(glob(data_dir))
        IN  /\ Len(time_series) = Len(image_files)
            /\ \A i \in 1..Len(image_files) :
                  time_series[i].date = FileDate(data_dir.files[image_files[i]])

\* C15 as stated: with an output path that is a regular file, construction
\* followed by run_pipeline fails with ValueError.
C15_FileOutputPathIsValueError ==
    (run = "raised" /\ output_path = "file") => error.raised = "ValueError"

\* the pipeline ran with an output path that is a regular file
FileOutputPathRaised == run = "raised" /\ output_path = "file"

\* the data directory holds no .tif file
NoTif == glob(data_dir) = {}

\* C16: for a data directory without .tif file, missing or empty,
\* load_time_series raises ValueError and returns no records, and a
\* constructed pipeline ends in that ValueError with no estimate made and no
\* output file written.
C16_NoImagesIsValueError ==
    (NoTif /\ output_path # "file") =>
        /\ load_time_series(data_dir) = Raise("ValueError", "No .tif files found")
        /\ run \in {"construct", "constructed", "raised"}
        /\ run = "raised" => error = Raise("ValueError", "No .tif files found")
        /\ time_series = <<>>
        /\ pc = "idle"
        /\ estimation = NoOutcome
        /\ predictions = <<>>
        /\ results = <<>>
        /\ csv = <<>>
        /\ output_files = {}

\* run_pipeline has failed on a data directory that does not exist
C16_Witness ==
    /\ run = "raised"
    /\ ~data_dir.exists
    /\ error.raised = "ValueError"
    /\ output_path = "dir"

\* run_pipeline has failed on an existing, empty data directory
EmptyDirRejected ==
    /\ run = "raised"
    /\ data_dir.exists
    /\ NoTif
    /\ error.raised = "ValueError"

\* the loader succeeds on the data directory
LoaderSucceeds == load_time_series(data_dir).raised = "none"

AllIndices == {"NDVI", "NDRE", "SAVI", "GNDVI", "MCARI", "CIred-edge"}

OutputFileNames ==
    {"nitrogen_analysis.csv", "n_content_analysis.png", "method_comparison.png",
     "uncertainty_analysis.png", "technical_report.txt"}

\* one entry per loaded record, in the same order, each with all six
\* indices; no entry skipped; one result per image file, returned after the
\* five output files are written
OneResultPerImage ==
    /\ run \in {"predicting", "csv_saved", "time_series_plotted", "methods_plotted",
                "uncertainty_plotted", "report_saved", "returned"} =>
          /\ Len(time_series_indices) = Len(time_series)
          /\ \A i \in 1..Len(time_series) :
                /\ time_series_indices[i].date = time_series[i].date
                /\ DOMAIN time_series_indices[i].indices = AllIndices
          /\ stdout = <<>>
          /\ pc = "predict_done" => Len(predictions) = Cardinality(glob(data_dir))
    /\ run = "returned" =>
          /\ Len(results) = Cardinality(glob(data_dir))
          /\ results # <<>>
          /\ output_files = OutputFileNames
    /\ run # "returned" => results = <<>>

\* C17 as stated: whenever the loader succeeds, run_pipeline does not fail
\* and OneResultPerImage holds.
C17_OneResultPerImage ==
    (LoaderSucceeds /\ output_path # "file") =>
        /\ run # "raised"
        /\ OneResultPerImage

\* some row of the loaded images has a zero divisor
ZeroDivisor ==
    \E i \in 1..Len(load_time_series(data_dir).value) :
        RowIndices(load_time_series(data_dir).value[i]).raised # "none"

\* when the loader succeeds and no row has a zero divisor, run_pipeline does
\* not fail and OneResultPerImage holds
OneResultPerImageUnlessZeroDivisor ==
    (LoaderSucceeds /\ ~ZeroDivisor /\ output_path # "file") =>
        /\ run # "raised"
        /\ OneResultPerImage

\* run_pipeline has returned two results
TwoResultsReturned == run = "returned" /\ Len(results) = 2

\* the float read back from a field of the CSV file
ReadCsvFloat(field) == IF field.text = "" THEN NaN ELSE field.float

-----------------------------------------------------------------------------
(* Diagnostics of predict *)

\* predict is running or has ended
InPredict == pc \in {"predict_loop", "predict_done", "predict_raised"}

\* the entries the loop has gone past
Passed == SubSeq(time_series_indices, 1, ts_pos - 1)

\* an entry with both keys whose indices hold no method index
IsSkipped(e) == DOMAIN e = {"date", "indices"} /\ ~EntryValid(e)

\* the message of the ValueError of estimate_n_content_from_indices
NoValidIndices == "No valid indices available for N content estimation"

\* C21: the diagnostics printed so far are, in input order, one per skipped
\* entry among those the loop has gone past, each with that entry's date and
\* the reason of the failure, and none for an entry that gave a result; when
\* predict returns, results and diagnostics together are as many as the
\* input entries.
C21_OneDiagnosticPerSkip ==
    InPredict =>
        LET skipped == SelectSeq(Passed, IsSkipped)
        IN  /\ Len(stdout) = Len(skipped)
            /\ \A i \in 1..Len(skipped) :
                  stdout[i] = [date |-> skipped[i]["date"], reason |-> NoValidIndices]
            /\ Len(predictions) + Len(stdout) = ts_pos - 1
            /\ PredictDone =>
                  Len(predictions) + Len(stdout) = Len(time_series_indices)

\* predict has returned one result and, in input order, the diagnostics of
\* two skipped entries of different dates
C21_Witness ==
    /\ PredictDone
    /\ Len(time_series_indices) = 3
    /\ Len(predictions) = 1
    /\ Len(stdout) = 2
    /\ stdout[1].date # stdout[2].date
    /\ \E i, j \in 1..3 :
          /\ i < j
          /\ IsSkipped(time_series_indices[i])
          /\ IsSkipped(time_series_indices[j])
          /\ stdout[1].date = time_series_indices[i]["date"]
          /\ stdout[2].date = time_series_indices[j]["date"]


-----------------------------------------------------------------------------
(* Ranges of the vegetation indices *)

\* lo <= x <= hi
Between(lo, x, hi) == FLe(lo, x) /\ FLe(x, hi)

\* the five band means of a record lie in [0, 1]
BandsInUnit(row) ==
    /\ InUnitInterval(row.blue)
    /\ InUnitInterval(row.green)
    /\ InUnitInterval(row.red)
    /\ InUnitInterval(row.nir)
    /\ InUnitInterval(row.red_edge)

\* the record entry i of the returned indices was computed from
RecordOf(i) == load_time_series(data_dir).value[i]

\* the ranges of NDVI, NDRE, SAVI, GNDVI and CIred-edge
FiveRanges(ind) ==
    /\ Between(Dec(-100), ind["NDVI"], Dec(100))
    /\ Between(Dec(-100), ind["NDRE"], Dec(100))
    /\ Between(Dec(-150), ind["SAVI"], Dec(150))
    /\ Between(Dec(-100), ind["GNDVI"], Dec(100))
    /\ FLe(Dec(-100), ind["CIred-edge"])

\* C22: every entry returned by calculate_vegetation_indices for a
\* record with band means in [0, 1] (a zero divisor returns no entry) has
\* NDVI, NDRE, GNDVI in [-1, 1], SAVI in [-1.5, 1.5], CIred-edge >= -1 and
\* MCARI >= 0.
C22_IndexRanges ==
    run = "indices_returned" =>
        \A i \in 1..Len(time_series_indices) :
            BandsInUnit(RecordOf(i)) =>
                /\ FiveRanges(time_series_indices[i].indices)
                /\ FLe(F(0, 1), time_series_indices[i].indices["MCARI"])

\* what the code does keep: the five ranges hold, and MCARI >= 0 exactly when
\* red <= 0.8 * red_edge + 0.2 * green
FiveRangesAndMcariSigned ==
    run = "indices_returned" =>
        \A i \in 1..Len(time_series_indices) :
            BandsInUnit(RecordOf(i)) =>
                /\ FiveRanges(time_series_indices[i].indices)
                /\ FLe(F(0, 1), time_series_indices[i].indices["MCARI"])
                     <=> FLe(RecordOf(i).red,
                             FAdd(FMul(Dec(80), RecordOf(i).red_edge),
                                  FMul(Dec(20), RecordOf(i).green)))

\* red 0.5, red edge 0.1, green 0.1: MCARI = (-0.4 - 0) * 0.2 = -0.08
NegativeMcariReturned ==
    /\ run = "indices_returned"
    /\ Len(time_series_indices) = 1
    /\ BandsInUnit(RecordOf(1))
    /\ RecordOf(1).red = Dec(50)
    /\ RecordOf(1).red_edge = Dec(10)
    /\ RecordOf(1).green = Dec(10)
    /\ time_series_indices[1].indices["MCARI"] = Dec(-8)
    /\ FiveRanges(time_series_indices[1].indices)


-----------------------------------------------------------------------------
(* Quality of the estimator's own results *)

\* the method keys of a mapping
Present(ind) == DOMAIN ind \cap Methods

HighSubsets ==
    {{"NDRE"}, {"CIred-edge"}, {"NDRE", "CIred-edge"},
     {"NDRE", "CIred-edge", "MCARI"}}
ModerateSubsets == {{"MCARI"}, {"NDRE", "MCARI"}, {"CIred-edge", "MCARI"}}

\* the uncertainty returned for the mapping that holds the method keys ks, each
\* with value 0, and no other key
UncertaintyOf(ks) ==
    estimate_n_content_from_indices([k \in ks |-> F(0, 1)]).value.uncertainty

\* a result of the estimator has been classified
Classified == pc = "quality_done" /\ estimation.raised = "none"

\* C23: a result of estimate_n_content_from_indices is never classified
\* "Low Confidence"; its uncertainty is that of the mapping holding just the
\* same method keys with value 0; the key sets {NDRE}, {CIred-edge}, {NDRE, CIred-edge} and
\* all three classify "High Confidence", and {MCARI}, {NDRE, MCARI},
\* {CIred-edge, MCARI} "Moderate Confidence".
C23_NeverLowConfidence ==
    Classified =>
        /\ quality # "Low Confidence"
        /\ uncertainty = estimation.value.uncertainty
        /\ uncertainty = UncertaintyOf(Present(indices))
        /\ Present(indices) \in HighSubsets => quality = "High Confidence"
        /\ Present(indices) \in ModerateSubsets => quality = "Moderate Confidence"
        /\ Present(indices) \in HighSubsets \cup ModerateSubsets

\* NDRE and MCARI: r2 0.86 passes the upper threshold, rmse 0.3523 does not
C23_Witness ==
    /\ Classified
    /\ Present(indices) = {"NDRE", "MCARI"}
    /\ FGt(uncertainty.r2_mean, Dec(85))
    /\ ~FLt(uncertainty.rmse, Dec(35))
    /\ quality = "Moderate Confidence"


-----------------------------------------------------------------------------
(* Errors predict does not tolerate *)

\* a method key or SAVI of the mapping holds a value that is not a number
NonNumber(ind) ==
    \E k \in DOMAIN ind \cap (Methods \cup {"SAVI"}) : ~IsNumber(ind[k])

\* the entry lacks a key or holds a non-number
Fatal(e) ==
    \/ "indices" \notin DOMAIN e
    \/ "date" \notin DOMAIN e
    \/ NonNumber(e["indices"])

\* the error a fatal entry raises
ErrorOf(e) ==
    IF "indices" \notin DOMAIN e THEN "KeyError"
    ELSE IF NonNumber(e["indices"]) THEN "TypeError"
    ELSE "KeyError"

PredictRaised == pc = "predict_raised"

\* C24: predict raises exactly at the first entry that lacks 'indices' or
\* 'date' (whether its indices would be estimated or skipped) or holds a
\* non-number under a method key or SAVI; the error is a KeyError or TypeError,
\* never the ValueError it tolerates; no entry after it is processed and predict
\* does not return, so a returned list means no entry was fatal.
C24_OnlyValueErrorTolerated ==
    /\ pc = "predict_loop" =>
          \A i \in 1..(ts_pos - 1) : ~Fatal(time_series_indices[i])
    /\ PredictRaised =>
          /\ ts_pos \in 1..Len(time_series_indices)
          /\ Fatal(time_series_indices[ts_pos])
          /\ \A i \in 1..(ts_pos - 1) : ~Fatal(time_series_indices[i])
          /\ exception = ErrorOf(time_series_indices[ts_pos])
          /\ exception # "ValueError"
          /\ Len(predictions) + Len(stdout) = ts_pos - 1
    /\ PredictDone =>
          \A i \in 1..Len(time_series_indices) : ~Fatal(time_series_indices[i])

\* a run that had estimated one entry and skipped another is aborted by a
\* third entry holding a string
C24_Witness ==
    /\ PredictRaised
    /\ exception = "TypeError"
    /\ ts_pos = 3
    /\ Len(predictions) = 1
    /\ Len(stdout) = 1

\* an entry without 'date' aborts the run after an estimated entry, whether its
\* own indices are valid or not
MissingDateAborts ==
    /\ PredictRaised
    /\ exception = "KeyError"
    /\ Len(predictions) = 1
    /\ "indices" \in DOMAIN time_series_indices[ts_pos]


====
